---- MODULE Spec2Model ----
(***************************************************************************)
(* Model of object_detection/fingers2.py: the per-finger ROI pipeline.     *)
(*                                                                         *)
(* Points are <<x, y>> pairs of integers.  Python lists and numpy arrays   *)
(* are sequences; the 0-based index i of the source is position i + 1.     *)
(***************************************************************************)
EXTENDS Integers, Sequences, FiniteSets, TLC

(***************************************************************************)
(* landmarks_constants (imported with *, line 8): the hand-landmark        *)
(* indices of the 21-point hand topology and the per-finger index table    *)
(* [tip, dip, pip].                                                        *)
(***************************************************************************)
THUMB_TIP == 4

INDEX_FINGER_TIP == 8

MIDDLE_FINGER_TIP == 12

RING_FINGER_TIP == 16

PINKY_TIP == 20

NumLandmarks == PINKY_TIP + 1

landmarks_per_finger(key) ==
    CASE key = "INDEX"  -> <<INDEX_FINGER_TIP, INDEX_FINGER_TIP - 1, INDEX_FINGER_TIP - 2>>
      [] key = "MIDDLE" -> <<MIDDLE_FINGER_TIP, MIDDLE_FINGER_TIP - 1, MIDDLE_FINGER_TIP - 2>>
      [] key = "RING"   -> <<RING_FINGER_TIP, RING_FINGER_TIP - 1, RING_FINGER_TIP - 2>>
      [] key = "PINKY"  -> <<PINKY_TIP, PINKY_TIP - 1, PINKY_TIP - 2>>

(***************************************************************************)
(* closest_contour_point (lines 105-146)                                   *)
(***************************************************************************)

\* The list literal of line 120.
TipIndices ==
    {THUMB_TIP, INDEX_FINGER_TIP, MIDDLE_FINGER_TIP, RING_FINGER_TIP, PINKY_TIP}

\* Lines 121 and 124: the boolean-mask selection keeps contour order.
LeftContour(ctr, landmark, contour) ==
    IF ctr \in TipIndices
    THEN SelectSeq(contour, LAMBDA c : c[1] <= landmark[1] /\ c[2] >= landmark[2])
    ELSE SelectSeq(contour, LAMBDA c : c[1] <= landmark[1])

\* Lines 122 and 125 with the comparison of the left side's (>= for >).
RightContourOverlapping(ctr, landmark, contour) ==
    IF ctr \in TipIndices
    THEN SelectSeq(contour, LAMBDA c : c[1] >= landmark[1] /\ c[2] >= landmark[2])
    ELSE SelectSeq(contour, LAMBDA c : c[1] >= landmark[1])

\* Lines 122 and 125.
RightContour(ctr, landmark, contour) ==
    IF ctr \in TipIndices
    THEN SelectSeq(contour, LAMBDA c : c[1] > landmark[1] /\ c[2] >= landmark[2])
    ELSE SelectSeq(contour, LAMBDA c : c[1] > landmark[1])

\* Lines 129-132 with an empty side replaced by the contour's first point.
OrFirstPoint(side, contour) == IF Len(side) = 0 THEN <<contour[1]>> ELSE side

\* Lines 129-132: an empty side is replaced by the entire contour.
OrEntireContour(side, contour) == IF Len(side) = 0 THEN contour ELSE side

\* Lines 135 and 140 take np.sqrt of the summed squares; the square root is
\* strictly increasing on the integers that occur, so the squared distance
\* orders the candidates (and ties them) exactly as the root does.
SquaredDistance(p, q) ==
    (p[1] - q[1]) * (p[1] - q[1]) + (p[2] - q[2]) * (p[2] - q[2])

Distances(side, landmark) ==
    [k \in 1..Len(side) |-> SquaredDistance(side[k], landmark)]

\* np.argmin: a left-to-right scan that moves only to a strictly smaller
\* value.  best is the position held after the first k entries.
RECURSIVE ArgMinScan(_, _, _)
ArgMinScanLastWins(d, k, best) ==
    IF k > Len(d) THEN best
    ELSE ArgMinScan(d, k + 1, IF d[k] <= d[best] THEN k ELSE best)

ArgMinScan(d, k, best) ==
    IF k > Len(d) THEN best
    ELSE ArgMinScan(d, k + 1, IF d[k] < d[best] THEN k ELSE best)

ArgMin(d) == ArgMinScan(d, 2, 1)

\* Lines 135-137 and 140-142.
ClosestOn(side, landmark) == side[ArgMin(Distances(side, landmark))]

\* The two candidate arrays one iteration searches (left_contour and
\* right_contour after lines 129-132).
CandidatePair(ctr, landmark, contour) ==
    <<OrEntireContour(LeftContour(ctr, landmark, contour), contour),
      OrEntireContour(RightContour(ctr, landmark, contour), contour)>>

\* One iteration of the loop of line 119: the pair appended at line 144.
ClosestPair(ctr, landmark, contour) ==
    LET c == CandidatePair(ctr, landmark, contour)
    IN  <<ClosestOn(c[1], landmark), ClosestOn(c[2], landmark)>>

\* The candidate arrays of every iteration, in landmark order.
Candidates(landmarks, contour) ==
    [i \in 1..Len(landmarks) |-> CandidatePair(i - 1, landmarks[i], contour)]

\* The whole function: one pair per landmark, in landmark order.
closest_contour_point(landmarks, contour) ==
    [i \in 1..Len(landmarks) |-> ClosestPair(i - 1, landmarks[i], contour)]

(***************************************************************************)
(* Real-valued geometry in exact fixed point.  A rectangle's centre and    *)
(* size are kept in fiftieths of a pixel (suffix 50) and a rotated         *)
(* coordinate in 250ths, which holds every value exactly for rectangles    *)
(* whose sides run along the axes or along a 3-4-5 direction.  An angle    *)
(* is a number of degrees, where 37 and 53 stand for atan(3/4) and         *)
(* atan(4/3); every angle that occurs is one of 0, 37, 53 plus a multiple  *)
(* of 90.                                                                  *)
(***************************************************************************)

\* Python's int() on a float: truncation toward zero, of the fraction a / b.
Trunc(a, b) == IF a >= 0 THEN a \div b ELSE -((-a) \div b)

SeqToSet(s) == {s[i] : i \in 1..Len(s)}

Max(S) == CHOOSE m \in S : \A n \in S : n <= m

Min(S) == CHOOSE m \in S : \A n \in S : m <= n

Dot(p, d) == p[1] * d[1] + p[2] * d[2]

Perp(d) == <<-d[2], d[1]>>

\* The extent of the points along a direction, in units of 1 / |d|.
Range(pts, d) ==
    LET proj == {Dot(p, d) : p \in pts} IN Max(proj) - Min(proj)

\* Twice the midpoint of the points' projections on a direction.
MidSum(pts, d) ==
    LET proj == {Dot(p, d) : p \in pts} IN Max(proj) + Min(proj)

\* The side directions the fixed point represents exactly, and their
\* lengths and angles.
Orientations == {<<1, 0>>, <<4, 3>>, <<3, 4>>}

Norm(d) == IF d = <<1, 0>> THEN 1 ELSE 5

AngleOf(d) == CASE d = <<1, 0>> -> 0 [] d = <<4, 3>> -> 37 [] d = <<3, 4>> -> 53

\* cv2.minAreaRect encloses the points in the rectangle of least area; one
\* of its sides lies along an edge of the convex hull, that is along the
\* difference of two of the points.  BestOrientation holds of d when the
\* rectangle with sides along d is strictly smaller than the one along
\* every other such difference, so that it is the rectangle the library
\* returns.  Areas are compared as Range * Range / |d|^2, cross-multiplied.
PairDirections(pts) ==
    {<<q[1] - p[1], q[2] - p[2]>> : <<p, q>> \in {pq \in pts \X pts : pq[1] # pq[2]}}

SameSides(d, e) == Dot(d, e) = 0 \/ Dot(Perp(d), e) = 0

BestOrientation(pts, d) ==
    \A e \in PairDirections(pts) :
        SameSides(d, e)
        \/ Range(pts, d) * Range(pts, Perp(d)) * Dot(e, e)
             < Range(pts, e) * Range(pts, Perp(e)) * Dot(d, d)

\* The point sets whose least rectangle this fixed point holds exactly.
Representable(pts) ==
    /\ Cardinality(pts) >= 2
    /\ \E d \in Orientations : BestOrientation(pts, d)

\* The rectangle with sides along d, as cv2.minAreaRect reports it: the
\* library names the same rectangle by the angle of either side, so form
\* (-1, 0 or 1 quarter turns from d) is the library's choice; an odd form
\* reports the two sizes exchanged.  ((x, y), (width, height), angle).
RectAlong(pts, d, form) ==
    LET n     == Norm(d)
        along == (Range(pts, d) * 50) \div n
        cross == (Range(pts, Perp(d)) * 50) \div n
        su    == MidSum(pts, d)
        sv    == MidSum(pts, Perp(d))
        cx    == (25 * (su * d[1] + sv * Perp(d)[1])) \div (n * n)
        cy    == (25 * (su * d[2] + sv * Perp(d)[2])) \div (n * n)
    IN  [center |-> <<cx, cy>>,
         size   |-> IF form = 0 THEN <<along, cross>> ELSE <<cross, along>>,
         angle  |-> AngleOf(d) + 90 * form]

minAreaRect(pts, form) ==
    RectAlong(pts, CHOOSE d \in Orientations : BestOrientation(pts, d), form)

(***************************************************************************)
(* get_bounding_box (lines 172-186)                                        *)
(***************************************************************************)

\* Lines 182-186 with the swap left out.
PortraitNoSwap(rect) == rect

\* Lines 182-186: the portrait normalisation of the rectangle of line 179.
Portrait(rect) ==
    IF rect.size[1] > rect.size[2]
    THEN [center |-> rect.center,
          size   |-> <<rect.size[2], rect.size[1]>>,
          angle  |-> rect.angle - 90]
    ELSE rect

get_bounding_box(points, form) == Portrait(minAreaRect(SeqToSet(points), form))

(***************************************************************************)
(* extract_roi (lines 189-215)                                             *)
(***************************************************************************)

\* Five times the cosine and the sine of an angle.
QuarterTurns(angle) == ((angle - (angle % 90)) \div 90) % 4

BaseVector(angle) ==
    CASE angle % 90 = 0  -> <<5, 0>>
      [] angle % 90 = 37 -> <<4, 3>>
      [] angle % 90 = 53 -> <<3, 4>>

Cos5(angle) ==
    LET v == BaseVector(angle)
    IN  CASE QuarterTurns(angle) = 0 -> v[1]
          [] QuarterTurns(angle) = 1 -> -v[2]
          [] QuarterTurns(angle) = 2 -> -v[1]
          [] QuarterTurns(angle) = 3 -> v[2]

Sin5(angle) ==
    LET v == BaseVector(angle)
    IN  CASE QuarterTurns(angle) = 0 -> v[2]
          [] QuarterTurns(angle) = 1 -> v[1]
          [] QuarterTurns(angle) = 2 -> -v[2]
          [] QuarterTurns(angle) = 3 -> -v[1]

\* cv2.getRotationMatrix2D(center, theta, 1) of line 206:
\*   [  a  b  (1 - a) cx - b cy ]
\*   [ -b  a  b cx + (1 - a) cy ]    a = cos theta, b = sin theta.
getRotationMatrix2D(center, angle) ==
    [a5    |-> Cos5(angle),
     b5    |-> Sin5(angle),
     tx250 |-> (5 - Cos5(angle)) * center[1] - Sin5(angle) * center[2],
     ty250 |-> Sin5(angle) * center[1] + (5 - Cos5(angle)) * center[2]]

\* Lines 202-203: width += width * 0.15, as the fraction 23 / 20 of a size
\* in fiftieths.  ScaledInt is int(width) of line 213 and ScaledHalfFloor is
\* width // 2 of line 212, both in whole pixels.  ScaledIntNoMargin is
\* int(width) with lines 202-203 left out.
ScaledIntNoMargin(size50) == size50 \div 50

ScaledInt(size50) == (23 * size50) \div 1000

ScaledHalfFloor(size50) == (23 * size50) \div 2000

\* Line 212: int(center - width // 2).
CropStart(center50, size50) == Trunc(center50 - 50 * ScaledHalfFloor(size50), 50)

\* The rows or columns a Python slice [start:stop] keeps of an axis of n.
SliceBound(n, i) ==
    IF i < 0 THEN (IF i + n < 0 THEN 0 ELSE i + n) ELSE (IF i > n THEN n ELSE i)

SliceLen(n, start, stop) ==
    IF SliceBound(n, stop) > SliceBound(n, start)
    THEN SliceBound(n, stop) - SliceBound(n, start)
    ELSE 0

\* Lines 200-215.  The warp of line 209 keeps the canvas of the source; the
\* result is the shape of roi, the ends of its slices and the matrix.
extract_roi(imageShape, rect) ==
    LET x == CropStart(rect.center[1], rect.size[1])
        y == CropStart(rect.center[2], rect.size[2])
    IN  [x      |-> x,
         y      |-> y,
         width  |-> SliceLen(imageShape[1], x, x + ScaledInt(rect.size[1])),
         height |-> SliceLen(imageShape[2], y, y + ScaledInt(rect.size[2])),
         matrix |-> getRotationMatrix2D(rect.center, rect.angle)]

(***************************************************************************)
(* transform_point (lines 218-226), adjust_for_roi_crop (lines 229-246)    *)
(***************************************************************************)

transform_point(point, matrix) ==
    <<Trunc(50 * (matrix.a5 * point[1] + matrix.b5 * point[2]) + matrix.tx250, 250),
      Trunc(50 * (matrix.a5 * point[2] - matrix.b5 * point[1]) + matrix.ty250, 250)>>

\* Lines 241-242: int(roi_center - roi_size // 2).
CropOffset(center50, size50) == Trunc(center50 - 50 * (size50 \div 100), 50)

adjust_for_roi_crop(point, roi_center, roi_size) ==
    <<point[1] - CropOffset(roi_center[1], roi_size[1]),
      point[2] - CropOffset(roi_center[2], roi_size[2])>>

(***************************************************************************)
(* get_segmentation_mask (lines 33-55), extract_contour (lines 83-95)      *)
(*                                                                         *)
(* An image is its channel count, the grey level cv2.cvtColor gives its    *)
(* background, and a sequence of filled axis-parallel rectangles           *)
(* [x0, y0, x1, y1, gray] (corner pixels included), pairwise apart.        *)
(***************************************************************************)
Threshold == 11

Padding == 200

\* Line 53: np.where(grayscale_image > threshold, 255, 0).
WhereAtLeast(gray) == IF gray >= Threshold THEN 255 ELSE 0

Where(gray) == IF gray > Threshold THEN 255 ELSE 0

\* Lines 46-55, past the channel check of line 46.
get_segmentation_mask(image) ==
    [shape   |-> image.shape,
     bg      |-> Where(image.bg),
     regions |-> [k \in 1..Len(image.regions) |->
                    [x0 |-> image.regions[k].x0, y0 |-> image.regions[k].y0,
                     x1 |-> image.regions[k].x1, y1 |-> image.regions[k].y1,
                     value |-> Where(image.regions[k].gray)]]]

\* The mask has no pixel set.
AllZero(mask) ==
    mask.bg = 0 /\ \A k \in 1..Len(mask.regions) : mask.regions[k].value = 0

\* cv2.findContours(RETR_EXTERNAL, CHAIN_APPROX_SIMPLE) of line 85 on a
\* filled rectangle: its corners from the top left, down first; a line
\* gives its two ends and a single pixel one point.
ContourOfRegion(r) ==
    IF r.x0 = r.x1 /\ r.y0 = r.y1 THEN << <<r.x0, r.y0>> >>
    ELSE IF r.x0 = r.x1 \/ r.y0 = r.y1 THEN << <<r.x0, r.y0>>, <<r.x1, r.y1>> >>
    ELSE << <<r.x0, r.y0>>, <<r.x0, r.y1>>, <<r.x1, r.y1>>, <<r.x1, r.y0>> >>

VisibleRegions(mask) == SelectSeq(mask.regions, LAMBDA r : r.value = 255)

\* A mask whose background is set is one outer contour, the image's border.
findContours(mask) ==
    IF mask.bg = 255
    THEN << ContourOfRegion([x0 |-> 0, y0 |-> 0,
                             x1 |-> mask.shape[1] - 1, y1 |-> mask.shape[2] - 1]) >>
    ELSE [k \in 1..Len(VisibleRegions(mask)) |-> ContourOfRegion(VisibleRegions(mask)[k])]

\* cv2.contourArea of a contour of ContourOfRegion: the polygon's area.
contourArea(c) ==
    IF Len(c) < 4 THEN 0 ELSE (c[3][1] - c[1][1]) * (c[3][2] - c[1][2])

\* Lines 92-95: sorted(..., reverse=True) is stable, so contours[0] is the
\* first contour of the greatest area.
Largest(contours) ==
    contours[CHOOSE i \in 1..Len(contours) :
        /\ \A j \in 1..Len(contours) : contourArea(contours[j]) <= contourArea(contours[i])
        /\ \A j \in 1..(i - 1) : contourArea(contours[j]) < contourArea(contours[i])]

(***************************************************************************)
(* process_image (lines 249-291)                                           *)
(***************************************************************************)
VARIABLES
    pc,                \* the statement of process_image reached
    numHands,          \* len(landmarks.hand_landmarks)
    imageShape,        \* <<width, height>> of image
    landmark_pixels,   \* line 257
    result,            \* line 259
    seg_mask,          \* line 260
    contour,           \* line 261 (the contour argument of closest_contour_point)
    closest_points,    \* line 263
    candidates,        \* left_contour, right_contour of each iteration (lines 121-132)
    key,               \* position of the loop of line 265 in its list
    finger_roi_points, \* lines 266-267
    rawRect,           \* line 178
    rect,              \* line 268
    roi,               \* line 269: the ROI's shape, slice starts and matrix
    new_pip,           \* line 278
    new_dip,           \* line 279
    files,             \* the files written, in order
    warnings,          \* the warnings printed, in order
    error              \* the exception raised, "" when none

vars == <<pc, numHands, imageShape, landmark_pixels, result, seg_mask, contour,
          closest_points, candidates, key, finger_roi_points, rawRect, rect, roi,
          new_pip, new_dip, files, warnings, error>>

\* Line 265.
FingerKeys == <<"INDEX", "MIDDLE", "RING", "PINKY">>

\* Lines 266-267: both contour neighbours of the two joints, then the tip.
FingerRoiPoints(k, pixels, closest) ==
    LET idx == landmarks_per_finger(k)
    IN  <<closest[idx[2] + 1][1], closest[idx[2] + 1][2],
          closest[idx[3] + 1][1], closest[idx[3] + 1][2],
          pixels[idx[1] + 1]>>

NoRect == [center |-> <<0, 0>>, size |-> <<0, 0>>, angle |-> 0]

NoRoi == [x |-> 0, y |-> 0, width |-> 0, height |-> 0,
          matrix |-> [a5 |-> 0, b5 |-> 0, tx250 |-> 0, ty250 |-> 0]]

NoImage == [channels |-> 0, shape |-> <<0, 0>>, bg |-> 0, regions |-> <<>>]

NoMask == [shape |-> <<0, 0>>, bg |-> 0, regions |-> <<>>]

(***************************************************************************)
(* The inputs: what the landmark detector, the landmark projector and the  *)
(* background remover hand to process_image.                               *)
(***************************************************************************)
ImgW == 40

ImgH == 40

MaxHands == 1

MaxRegions == 2

\* The three ways cv2.minAreaRect names one rectangle (see RectAlong).
Forms == {-1, 0, 1}

\* [tip, dip, pip] pixel positions of one finger.
FingerPoses ==
    { << <<5, 4>>, <<5, 5>>, <<5, 11>> >>,
      << <<5, 5>>, <<5, 6>>, <<5, 30>> >> }

\* The wrist, the thumb and the knuckles, which no finger's ROI reads.
OtherPixel == <<5, 20>>

Layout(poses) ==
    [i \in 1..NumLandmarks |->
        IF \E k \in 1..Len(FingerKeys) : \E j \in 1..3 :
               landmarks_per_finger(FingerKeys[k])[j] = i - 1
        THEN LET k == CHOOSE k \in 1..Len(FingerKeys) : \E j \in 1..3 :
                          landmarks_per_finger(FingerKeys[k])[j] = i - 1
                 j == CHOOSE j \in 1..3 : landmarks_per_finger(FingerKeys[k])[j] = i - 1
             IN  poses[k][j]
        ELSE OtherPixel]

Layouts == {Layout(poses) : poses \in [1..Len(FingerKeys) -> FingerPoses]}

\* Foreground shapes: a hand well inside the image, one touching the left
\* edge, one touching the bottom edge, a lying one, two small ones and a
\* single pixel.
Shapes ==
    { [x0 |-> 4,  y0 |-> 4,  x1 |-> 24, y1 |-> 34],
      [x0 |-> 0,  y0 |-> 4,  x1 |-> 20, y1 |-> 34],
      [x0 |-> 4,  y0 |-> 9,  x1 |-> 24, y1 |-> ImgH - 1],
      [x0 |-> 4,  y0 |-> 4,  x1 |-> 34, y1 |-> 24],
      [x0 |-> 4,  y0 |-> 4,  x1 |-> 7,  y1 |-> 12],
      [x0 |-> 30, y0 |-> 4,  x1 |-> 36, y1 |-> 12],
      [x0 |-> 30, y0 |-> 36, x1 |-> 30, y1 |-> 36] }

Regions ==
    {[x0 |-> s.x0, y0 |-> s.y0, x1 |-> s.x1, y1 |-> s.y1, gray |-> g] :
        s \in Shapes, g \in {Threshold, Threshold + 1}}

\* Two regions with at least one background pixel between them.
Apart(r, s) ==
    \/ r.x1 + 1 < s.x0 \/ s.x1 + 1 < r.x0
    \/ r.y1 + 1 < s.y0 \/ s.y1 + 1 < r.y0

RegionSeqs ==
    {rs \in UNION {[1..n -> Regions] : n \in 0..MaxRegions} :
        \A i \in 1..Len(rs) : \A j \in 1..Len(rs) : i # j => Apart(rs[i], rs[j])}

\* What segmentation.bg.remove returns: three-channel images, and one with
\* an alpha channel.
Results ==
    {[channels |-> 3, shape |-> <<ImgW, ImgH>>, bg |-> b, regions |-> rs] :
        b \in {0, Threshold}, rs \in RegionSeqs}
    \cup {[channels |-> 4, shape |-> <<ImgW, ImgH>>, bg |-> 0, regions |-> <<>>]}

\* The contour process_image reaches closest_contour_point with, or <<>>.
ContourReached(res) ==
    IF res.channels = 3 /\ ~AllZero(get_segmentation_mask(res))
    THEN Largest(findContours(get_segmentation_mask(res)))
    ELSE <<>>

\* The model covers the inputs whose four finger rectangles it represents.
Covered(pixels, res) ==
    LET c == ContourReached(res)
    IN  Len(c) >= 2 =>
            \A k \in 1..Len(FingerKeys) :
                Representable(SeqToSet(
                    FingerRoiPoints(FingerKeys[k], pixels, closest_contour_point(pixels, c))))

Init ==
    /\ pc = "start"
    /\ numHands = 0
    /\ imageShape = <<ImgW, ImgH>>
    /\ landmark_pixels = <<>>
    /\ result = NoImage
    /\ seg_mask = NoMask
    /\ contour = <<>>
    /\ closest_points = <<>>
    /\ candidates = <<>>
    /\ key = 0
    /\ finger_roi_points = <<>>
    /\ rawRect = NoRect
    /\ rect = NoRect
    /\ roi = NoRoi
    /\ new_pip = <<0, 0>>
    /\ new_dip = <<0, 0>>
    /\ files = <<>>
    /\ warnings = <<>>
    /\ error = ""

\* Line 250.
LocateHandLandmarks ==
    /\ pc = "start"
    /\ \E n \in 0..MaxHands : numHands' = n
    /\ pc' = "located"
    /\ UNCHANGED <<imageShape, landmark_pixels, result, seg_mask, contour,
                   closest_points, candidates, key, finger_roi_points, rawRect,
                   rect, roi, new_pip, new_dip, files, warnings, error>>

\* Lines 252-254 without the return: line 257 then indexes an empty list.
SkipNoLandmarksFallsThrough ==
    /\ pc = "located"
    /\ numHands = 0
    /\ warnings' = Append(warnings, "no landmarks")
    /\ error' = "IndexError: list index out of range"
    /\ pc' = "raised"
    /\ UNCHANGED <<numHands, imageShape, landmark_pixels, result, seg_mask, contour,
                   closest_points, candidates, key, finger_roi_points, rawRect,
                   rect, roi, new_pip, new_dip, files>>

\* Lines 252-254.
SkipNoLandmarks ==
    /\ pc = "located"
    /\ numHands = 0
    /\ warnings' = Append(warnings, "no landmarks")
    /\ pc' = "returned"
    /\ UNCHANGED <<numHands, imageShape, landmark_pixels, result, seg_mask, contour,
                   closest_points, candidates, key, finger_roi_points, rawRect,
                   rect, roi, new_pip, new_dip, files, error>>

\* Line 257.
LandmarksToPixelCoordinates ==
    /\ pc = "located"
    /\ numHands # 0
    /\ \E l \in Layouts : landmark_pixels' = l
    /\ pc' = "projected"
    /\ UNCHANGED <<numHands, imageShape, result, seg_mask, contour,
                   closest_points, candidates, key, finger_roi_points, rawRect,
                   rect, roi, new_pip, new_dip, files, warnings, error>>

\* Lines 258-259.
RemoveBackground ==
    /\ pc = "projected"
    /\ \E r \in Results : Covered(landmark_pixels, r) /\ result' = r
    /\ pc' = "segmented"
    /\ UNCHANGED <<numHands, imageShape, landmark_pixels, seg_mask, contour,
                   closest_points, candidates, key, finger_roi_points, rawRect,
                   rect, roi, new_pip, new_dip, files, warnings, error>>

\* Line 260, the check of lines 46-47 failing.
MaskRaises ==
    /\ pc = "segmented"
    /\ result.channels # 3
    /\ error' = "ValueError: Expected an RGB image with 3 channels"
    /\ pc' = "raised"
    /\ UNCHANGED <<numHands, imageShape, landmark_pixels, result, seg_mask, contour,
                   closest_points, candidates, key, finger_roi_points, rawRect,
                   rect, roi, new_pip, new_dip, files, warnings>>

\* Line 260.
GetSegmentationMask ==
    /\ pc = "segmented"
    /\ result.channels = 3
    /\ seg_mask' = get_segmentation_mask(result)
    /\ pc' = "masked"
    /\ UNCHANGED <<numHands, imageShape, landmark_pixels, result, contour,
                   closest_points, candidates, key, finger_roi_points, rawRect,
                   rect, roi, new_pip, new_dip, files, warnings, error>>

\* Line 261, the check of lines 88-89 failing.
ContourRaises ==
    /\ pc = "masked"
    /\ Len(findContours(seg_mask)) = 0
    /\ error' = "ValueError: No contours found in the image"
    /\ pc' = "raised"
    /\ UNCHANGED <<numHands, imageShape, landmark_pixels, result, seg_mask, contour,
                   closest_points, candidates, key, finger_roi_points, rawRect,
                   rect, roi, new_pip, new_dip, files, warnings>>

\* Line 261.
ExtractContour ==
    /\ pc = "masked"
    /\ Len(findContours(seg_mask)) # 0
    /\ contour' = Largest(findContours(seg_mask))
    /\ pc' = "contoured"
    /\ UNCHANGED <<numHands, imageShape, landmark_pixels, result, seg_mask,
                   closest_points, candidates, key, finger_roi_points, rawRect,
                   rect, roi, new_pip, new_dip, files, warnings, error>>

\* Lines 262-263 on a contour of one point: np.squeeze of line 95 left it
\* one-dimensional, and the indexing of line 124 raises.
ClosestRaises ==
    /\ pc = "contoured"
    /\ Len(contour) = 1
    /\ error' = "IndexError: too many indices for array"
    /\ pc' = "raised"
    /\ UNCHANGED <<numHands, imageShape, landmark_pixels, result, seg_mask, contour,
                   closest_points, candidates, key, finger_roi_points, rawRect,
                   rect, roi, new_pip, new_dip, files, warnings>>

\* Lines 262-264; the padded image is not read again.
ClosestContourPoint ==
    /\ pc = "contoured"
    /\ Len(contour) > 1
    /\ closest_points' = closest_contour_point(landmark_pixels, contour)
    /\ candidates' = Candidates(landmark_pixels, contour)
    /\ imageShape' = <<imageShape[1] + 2 * Padding, imageShape[2] + 2 * Padding>>
    /\ key' = 1
    /\ pc' = "fingers"
    /\ UNCHANGED <<numHands, landmark_pixels, result, seg_mask, contour,
                   finger_roi_points, rawRect, rect, roi, new_pip, new_dip,
                   files, warnings, error>>

\* Lines 266-282 of one turn of the loop.
FingerGeometry(form) ==
    LET k   == FingerKeys[key]
        pts == FingerRoiPoints(k, landmark_pixels, closest_points)
        dip == landmark_pixels[landmarks_per_finger(k)[2] + 1]
        pip == landmark_pixels[landmarks_per_finger(k)[3] + 1]
    IN  /\ finger_roi_points' = pts
        /\ rawRect' = minAreaRect(SeqToSet(pts), form)
        /\ rect' = get_bounding_box(pts, form)
        /\ roi' = extract_roi(seg_mask.shape, rect')
        /\ new_pip' = adjust_for_roi_crop(transform_point(pip, roi'.matrix),
                                          rect'.center, rect'.size)
        /\ new_dip' = adjust_for_roi_crop(transform_point(dip, roi'.matrix),
                                          rect'.center, rect'.size)

\* roi.size of line 284, for a three-channel image.
RoiSize(r) == r.width * r.height * 3

\* Lines 266-285: the ROI is written.
FingerWrite ==
    /\ pc = "fingers"
    /\ key <= Len(FingerKeys)
    /\ \E form \in Forms : FingerGeometry(form)
    /\ RoiSize(roi') > 0
    /\ files' = Append(files, <<"finger", FingerKeys[key]>>)
    /\ key' = key + 1
    /\ UNCHANGED <<pc, numHands, imageShape, landmark_pixels, result, seg_mask,
                   contour, closest_points, candidates, warnings, error>>

\* Lines 266-287: the ROI is empty and the write is skipped.
FingerSkip ==
    /\ pc = "fingers"
    /\ key <= Len(FingerKeys)
    /\ \E form \in Forms : FingerGeometry(form)
    /\ ~(RoiSize(roi') > 0)
    /\ warnings' = Append(warnings, <<"empty roi", FingerKeys[key]>>)
    /\ key' = key + 1
    /\ UNCHANGED <<pc, numHands, imageShape, landmark_pixels, result, seg_mask,
                   contour, closest_points, candidates, files, error>>

\* Lines 290-291.
WriteMask ==
    /\ pc = "fingers"
    /\ key > Len(FingerKeys)
    /\ files' = Append(files, <<"mask">>)
    /\ pc' = "returned"
    /\ UNCHANGED <<numHands, imageShape, landmark_pixels, result, seg_mask, contour,
                   closest_points, candidates, key, finger_roi_points, rawRect,
                   rect, roi, new_pip, new_dip, warnings, error>>

Next ==
    \/ LocateHandLandmarks
    \/ SkipNoLandmarks
    \/ LandmarksToPixelCoordinates
    \/ RemoveBackground
    \/ MaskRaises
    \/ GetSegmentationMask
    \/ ContourRaises
    \/ ExtractContour
    \/ ClosestRaises
    \/ ClosestContourPoint
    \/ FingerWrite
    \/ FingerSkip
    \/ WriteMask

Spec == Init /\ [][Next]_vars

(***************************************************************************)
(* closest_contour_point on its own: every contour of up to MaxContour     *)
(* distinct grid points, and landmark lists that reach as far as the       *)
(* first fingertip index, with one position for the joints before it and   *)
(* one for the tip.                                                        *)
(***************************************************************************)
GridMaxX == 1

GridMaxY == 2

MaxContour == 2

Grid == (0..GridMaxX) \X (0..GridMaxY)

Contours ==
    {c \in UNION {[1..n -> Grid] : n \in 1..MaxContour} :
        \A i \in 1..Len(c) : \A j \in 1..Len(c) : i # j => c[i] # c[j]}

LandmarkLists ==
    {[i \in 1..(THUMB_TIP + 1) |-> IF i - 1 \in TipIndices THEN q ELSE p] :
        p \in Grid, q \in Grid}

InitCCP ==
    /\ pc = "ccp_call"
    /\ numHands = 1
    /\ imageShape = <<GridMaxX + 1, GridMaxY + 1>>
    /\ landmark_pixels \in LandmarkLists
    /\ result = NoImage
    /\ seg_mask = NoMask
    /\ contour \in Contours
    /\ closest_points = <<>>
    /\ candidates = <<>>
    /\ key = 0
    /\ finger_roi_points = <<>>
    /\ rawRect = NoRect
    /\ rect = NoRect
    /\ roi = NoRoi
    /\ new_pip = <<0, 0>>
    /\ new_dip = <<0, 0>>
    /\ files = <<>>
    /\ warnings = <<>>
    /\ error = ""

\* Lines 117-146: the call and its return value.
CallClosestContourPoint ==
    /\ pc = "ccp_call"
    /\ closest_points' = closest_contour_point(landmark_pixels, contour)
    /\ candidates' = Candidates(landmark_pixels, contour)
    /\ pc' = "ccp_done"
    /\ UNCHANGED <<numHands, imageShape, landmark_pixels, result, seg_mask, contour,
                   key, finger_roi_points, rawRect, rect, roi, new_pip, new_dip,
                   files, warnings, error>>

NextCCP == CallClosestContourPoint

SpecCCP == InitCCP /\ [][NextCCP]_vars

(***************************************************************************)
(* get_bounding_box, extract_roi and the remapping of a point on their     *)
(* own: point lists of up to MaxRoiPoints of the points below, among them  *)
(* the corners of upright, lying, small, edge-touching and 3-4-5 turned    *)
(* rectangles.                                                             *)
(***************************************************************************)
MaxRoiPoints == 4

RoiPoints ==
    { <<4, 4>>, <<24, 4>>, <<24, 34>>, <<4, 34>>,
      <<7, 4>>, <<7, 12>>, <<4, 12>>,
      <<34, 4>>, <<34, 24>>, <<4, 24>>,
      <<0, 4>>, <<0, 34>>, <<4, ImgH - 1>>, <<24, ImgH - 1>>,
      <<20, 4>>, <<28, 10>>, <<8, 20>>, <<16, 26>>, <<9, 21>>, <<13, 24>> }

RECURSIVE SetToSeq(_)
SetToSeq(S) ==
    IF S = {} THEN <<>>
    ELSE LET p == CHOOSE p \in S : TRUE IN <<p>> \o SetToSeq(S \ {p})

RoiPointLists ==
    {SetToSeq(s) : s \in {t \in SUBSET RoiPoints :
        Cardinality(t) <= MaxRoiPoints /\ Representable(t)}}

InitRoi ==
    /\ pc = "roi_call"
    /\ numHands = 1
    /\ imageShape = <<ImgW, ImgH>>
    /\ landmark_pixels = <<>>
    /\ result = NoImage
    /\ seg_mask = [NoMask EXCEPT !.shape = <<ImgW, ImgH>>]
    /\ contour = <<>>
    /\ closest_points = <<>>
    /\ candidates = <<>>
    /\ key = 0
    /\ finger_roi_points \in RoiPointLists
    /\ rawRect = NoRect
    /\ rect = NoRect
    /\ roi = NoRoi
    /\ new_pip = <<0, 0>>
    /\ new_dip = <<0, 0>>
    /\ files = <<>>
    /\ warnings = <<>>
    /\ error = ""

\* Line 268.
CallGetBoundingBox ==
    /\ pc = "roi_call"
    /\ \E form \in Forms :
          /\ rawRect' = minAreaRect(SeqToSet(finger_roi_points), form)
          /\ rect' = get_bounding_box(finger_roi_points, form)
    /\ pc' = "roi_boxed"
    /\ UNCHANGED <<numHands, imageShape, landmark_pixels, result, seg_mask, contour,
                   closest_points, candidates, key, finger_roi_points, roi,
                   new_pip, new_dip, files, warnings, error>>

\* Line 269.
CallExtractRoi ==
    /\ pc = "roi_boxed"
    /\ roi' = extract_roi(seg_mask.shape, rect)
    /\ pc' = "roi_extracted"
    /\ UNCHANGED <<numHands, imageShape, landmark_pixels, result, seg_mask, contour,
                   closest_points, candidates, key, finger_roi_points, rawRect,
                   rect, new_pip, new_dip, files, warnings, error>>

\* Lines 274 and 278, for one of the points the rectangle was built from.
CallRemapPoint ==
    /\ pc = "roi_extracted"
    /\ \E i \in 1..Len(finger_roi_points) :
          new_pip' = adjust_for_roi_crop(
                         transform_point(finger_roi_points[i], roi.matrix),
                         rect.center, rect.size)
    /\ pc' = "roi_remapped"
    /\ UNCHANGED <<numHands, imageShape, landmark_pixels, result, seg_mask, contour,
                   closest_points, candidates, key, finger_roi_points, rawRect,
                   rect, roi, new_dip, files, warnings, error>>

NextRoi == CallGetBoundingBox \/ CallExtractRoi \/ CallRemapPoint

SpecRoi == InitRoi /\ [][NextRoi]_vars

(***************************************************************************)
(* Properties of process_image (under Spec)                                *)
(***************************************************************************)

FingerFiles == SelectSeq(files, LAMBDA f : f[1] = "finger")

\* C1: when the detector returns zero hands, process_image returns without
\* raising, prints the skip warning and writes no file, and no later step
\* (segmentation, contour, finger loop) is reached.
C1_NoHandsSkips ==
    (pc # "start" /\ numHands = 0) =>
        /\ pc \in {"located", "returned"}
        /\ error = ""
        /\ files = <<>>
        /\ result = NoImage /\ seg_mask = NoMask /\ contour = <<>>
        /\ closest_points = <<>> /\ key = 0
        /\ pc = "returned" => warnings = <<"no landmarks">>

C1_Witness == pc = "returned" /\ numHands = 0 /\ warnings = <<"no landmarks">>

\* The segmentation result is nowhere above the threshold.
UniformlyAtOrBelow(image) ==
    /\ image.bg <= Threshold
    /\ \A k \in 1..Len(image.regions) : image.regions[k].gray <= Threshold

\* C2: when the three-channel segmentation result is nowhere above the
\* threshold, the mask is all zero, the only step after the mask is the
\* "No contours found" error leaving process_image, and no file has been
\* written at any point of the run.
C2_NoForegroundRaises ==
    (result.channels = 3 /\ UniformlyAtOrBelow(result)) =>
        /\ pc \in {"segmented", "masked", "raised"}
        /\ files = <<>>
        /\ pc = "masked" => AllZero(seg_mask) /\ ENABLED ContourRaises
        /\ pc = "raised" => error = "ValueError: No contours found in the image"

C2_Witness ==
    /\ pc = "raised"
    /\ error = "ValueError: No contours found in the image"
    /\ files = <<>>
    /\ \E k \in 1..Len(result.regions) : result.regions[k].gray = Threshold

\* The finger loop: the fingers are taken in the order INDEX, MIDDLE, RING,
\* PINKY; a finger whose ROI is empty gets a warning and no file, one whose
\* ROI is not empty gets its file, exactly once; the loop goes on to the
\* next finger either way, and after the last finger the mask file is
\* written, as the last file.
FingerLoop ==
    /\ pc = "fingers" =>
          /\ key \in 1..(Len(FingerKeys) + 1)
          /\ Len(FingerFiles) + Len(warnings) = key - 1
          /\ FingerFiles = files
          /\ \A k \in 1..(key - 1) :
                Cardinality({i \in 1..Len(files) : files[i] = <<"finger", FingerKeys[k]>>})
                + Cardinality({i \in 1..Len(warnings) :
                                  warnings[i] = <<"empty roi", FingerKeys[k]>>}) = 1
          /\ \A i \in 1..Len(files) : \A j \in 1..Len(files) :
                (i < j) =>
                    \E a \in 1..(key - 1) : \E b \in 1..(key - 1) :
                        a < b /\ files[i] = <<"finger", FingerKeys[a]>>
                              /\ files[j] = <<"finger", FingerKeys[b]>>
          /\ key > 1 =>
                IF RoiSize(roi) > 0
                THEN files[Len(files)] = <<"finger", FingerKeys[key - 1]>>
                ELSE warnings[Len(warnings)] = <<"empty roi", FingerKeys[key - 1]>>
          /\ key > Len(FingerKeys) => ENABLED WriteMask
    /\ (pc = "returned" /\ numHands # 0) =>
          /\ key = Len(FingerKeys) + 1
          /\ Len(FingerFiles) + Len(warnings) = Len(FingerKeys)
          /\ files = FingerFiles \o << <<"mask">> >>
          /\ error = ""

\* C3: once the contour has been extracted the run goes through the finger
\* loop as FingerLoop says and on to the mask file: nothing is raised after
\* the contour.
C3_FingersAfterContour ==
    /\ FingerLoop
    /\ contour # <<>> => error = "" /\ pc \in {"contoured", "fingers", "returned"}

(***************************************************************************)
(* Properties of closest_contour_point (under SpecCCP)                     *)
(***************************************************************************)

IsFingertip(i) == (i - 1) \in {4, 8, 12, 16, 20}

\* The positions of the contour on a landmark's left (x <= landmark.x, and
\* not above a fingertip: y >= landmark.y) and on its right (x > landmark.x,
\* likewise), as sets of contour positions.
LeftPositions(i) ==
    {k \in 1..Len(contour) :
        /\ contour[k][1] <= landmark_pixels[i][1]
        /\ IsFingertip(i) => contour[k][2] >= landmark_pixels[i][2]}

RightPositions(i) ==
    {k \in 1..Len(contour) :
        /\ contour[k][1] > landmark_pixels[i][1]
        /\ IsFingertip(i) => contour[k][2] >= landmark_pixels[i][2]}

AllPositions == 1..Len(contour)

PointsAt(K) == {contour[k] : k \in K}

\* Position k is the nearest to landmark i among the positions K, and the
\* first of the equally near.
FirstNearest(k, K, i) ==
    /\ k \in K
    /\ \A m \in K :
          /\ SquaredDistance(contour[m], landmark_pixels[i])
                >= SquaredDistance(contour[k], landmark_pixels[i])
          /\ m < k => SquaredDistance(contour[m], landmark_pixels[i])
                         > SquaredDistance(contour[k], landmark_pixels[i])

\* C4: the result has one pair per landmark, at the landmark's index; its
\* left point is the nearest contour point of the left subset and its right
\* point the nearest of the right subset, the first in contour order among
\* the equally near.
C4_NearestPerSide ==
    pc = "ccp_done" =>
        /\ Len(closest_points) = Len(landmark_pixels)
        /\ \A i \in 1..Len(landmark_pixels) :
              /\ LeftPositions(i) # {} =>
                    \E k \in LeftPositions(i) :
                        /\ closest_points[i][1] = contour[k]
                        /\ FirstNearest(k, LeftPositions(i), i)
              /\ RightPositions(i) # {} =>
                    \E k \in RightPositions(i) :
                        /\ closest_points[i][2] = contour[k]
                        /\ FirstNearest(k, RightPositions(i), i)

\* A call in which two points of a left subset are equally near, for a joint
\* and for a fingertip whose subset leaves out a point above it.
C4_Witness ==
    /\ pc = "ccp_done"
    /\ \E i \in 1..Len(landmark_pixels) :
          \E k \in LeftPositions(i) : \E m \in LeftPositions(i) :
              /\ k < m
              /\ FirstNearest(k, LeftPositions(i), i)
              /\ SquaredDistance(contour[m], landmark_pixels[i])
                    = SquaredDistance(contour[k], landmark_pixels[i])
              /\ closest_points[i][1] = contour[k]
    /\ \E i \in 1..Len(landmark_pixels) :
          /\ IsFingertip(i)
          /\ RightPositions(i) # {}
          /\ \E k \in AllPositions : contour[k][2] < landmark_pixels[i][2]

\* C5: the two arrays searched for a landmark are the left and the right
\* subset, which share no point, except that an empty subset -- and only an
\* empty one -- is replaced by the whole contour.
C5_DisjointCandidates ==
    pc = "ccp_done" =>
        \A i \in 1..Len(landmark_pixels) :
            LET left  == candidates[i][1]
                right == candidates[i][2]
            IN  /\ LeftPositions(i) # {} => SeqToSet(left) = PointsAt(LeftPositions(i))
                /\ RightPositions(i) # {} => SeqToSet(right) = PointsAt(RightPositions(i))
                /\ LeftPositions(i) = {} => left = contour
                /\ RightPositions(i) = {} => right = contour
                /\ (LeftPositions(i) # {} /\ RightPositions(i) # {}) =>
                       SeqToSet(left) \cap SeqToSet(right) = {}

\* A call with a landmark that has points on both sides and one whose left
\* subset is empty.
C5_Witness ==
    /\ pc = "ccp_done"
    /\ \E i \in 1..Len(landmark_pixels) :
          /\ LeftPositions(i) # {} /\ RightPositions(i) # {}
          /\ SeqToSet(candidates[i][1]) \cap SeqToSet(candidates[i][2]) = {}
    /\ \E i \in 1..Len(landmark_pixels) :
          /\ LeftPositions(i) = {}
          /\ candidates[i][1] = contour
          /\ Len(contour) > 1

SmallestX == Min({contour[k][1] : k \in AllPositions})

\* C6 as stated: a landmark whose x is the contour's smallest x or less gets
\* as its left point a point of least distance over the entire contour.
C6_ExtremeLeftOrEqual ==
    pc = "ccp_done" =>
        \A i \in 1..Len(landmark_pixels) :
            landmark_pixels[i][1] <= SmallestX =>
                \A m \in AllPositions :
                    SquaredDistance(closest_points[i][1], landmark_pixels[i])
                        <= SquaredDistance(contour[m], landmark_pixels[i])

\* C6 amended: a landmark strictly left of every contour point gets as its
\* left point the nearest point of the entire contour, the first in contour
\* order among the equally near.
C6_StrictlyLeft ==
    pc = "ccp_done" =>
        \A i \in 1..Len(landmark_pixels) :
            landmark_pixels[i][1] < SmallestX =>
                \E k \in AllPositions :
                    /\ closest_points[i][1] = contour[k]
                    /\ FirstNearest(k, AllPositions, i)

\* A landmark strictly left of a contour whose first point is not the
\* nearest.
C6_Witness ==
    /\ pc = "ccp_done"
    /\ \E i \in 1..Len(landmark_pixels) :
          /\ landmark_pixels[i][1] < SmallestX
          /\ ~FirstNearest(1, AllPositions, i)
          /\ \E k \in AllPositions :
                closest_points[i][1] = contour[k] /\ FirstNearest(k, AllPositions, i)

(***************************************************************************)
(* Properties of get_bounding_box and extract_roi (under SpecRoi)          *)
(***************************************************************************)

\* C9: the rectangle get_bounding_box returns is never wider than high; it
\* is the least rectangle with its sizes exchanged and its angle lowered by
\* 90 when that one is wider than high, and the least rectangle itself
\* otherwise.
C9_Portrait ==
    pc \in {"roi_boxed", "roi_extracted", "roi_remapped"} =>
        /\ rect.size[1] <= rect.size[2]
        /\ rect.center = rawRect.center
        /\ IF rawRect.size[1] > rawRect.size[2]
           THEN /\ rect.size = <<rawRect.size[2], rawRect.size[1]>>
                /\ rect.angle = rawRect.angle - 90
           ELSE /\ rect.size = rawRect.size
                /\ rect.angle = rawRect.angle

\* A least rectangle on a 3-4-5 direction that is wider than high.
C9_Witness ==
    /\ pc = "roi_boxed"
    /\ rawRect.size[1] > rawRect.size[2]
    /\ rawRect.angle % 90 # 0
    /\ rect.size[1] < rect.size[2]

\* A length in pixels is 1.15 times a size in fiftieths, up to rounding:
\* less than one pixel away.
ScaledUpToRounding(pixels, size50) ==
    /\ 1000 * pixels > 23 * size50 - 1000
    /\ 1000 * pixels < 23 * size50 + 1000

\* C8 as stated: every ROI is 1.15 times the rectangle in width and in
\* height, up to rounding.
C8_AlwaysScaled ==
    pc \in {"roi_extracted", "roi_remapped"} =>
        /\ ScaledUpToRounding(roi.width, rect.size[1])
        /\ ScaledUpToRounding(roi.height, rect.size[2])

\* The window of 1.15 times the rectangle that starts at the crop's corner
\* lies inside the image.
WindowInside ==
    /\ roi.x >= 0
    /\ roi.y >= 0
    /\ 1000 * roi.x + 23 * rect.size[1] <= 1000 * seg_mask.shape[1]
    /\ 1000 * roi.y + 23 * rect.size[2] <= 1000 * seg_mask.shape[2]

\* C8 amended: the ROI is 1.15 times the rectangle in width and in height,
\* up to rounding, when the crop window lies inside the image.
C8_ScaledWhenInside ==
    (pc \in {"roi_extracted", "roi_remapped"} /\ WindowInside) =>
        /\ ScaledUpToRounding(roi.width, rect.size[1])
        /\ ScaledUpToRounding(roi.height, rect.size[2])

\* A turned rectangle whose window lies inside the image and whose margin
\* is at least a pixel on each axis.
C8_Witness ==
    /\ pc = "roi_extracted"
    /\ WindowInside
    /\ rect.angle % 90 # 0
    /\ 50 * roi.width >= rect.size[1] + 50
    /\ 50 * roi.height >= rect.size[2] + 50

\* C7: a point given to get_bounding_box, transformed by the ROI's matrix
\* and adjusted by the rectangle's centre and size, lies inside the ROI
\* image: 0 <= x < width and 0 <= y < height.
C7_RoundTripInside ==
    pc = "roi_remapped" =>
        /\ 0 <= new_pip[1] /\ new_pip[1] < roi.width
        /\ 0 <= new_pip[2] /\ new_pip[2] < roi.height

(***************************************************************************)
(* Properties of the remapping in process_image (under Spec)               *)
(***************************************************************************)

\* The finger whose turn of the loop has just ended, and its pip joint.
LastKey == FingerKeys[key - 1]

LastPip == landmark_pixels[landmarks_per_finger(LastKey)[3] + 1]

\* C10: for each finger, the offset adjust_for_roi_crop subtracts from the
\* transformed pip joint is the corner at which extract_roi cropped the
\* finger's ROI.
C10_SameOffset ==
    (pc = "fingers" /\ key > 1) =>
        LET rotated_pip == transform_point(LastPip, roi.matrix)
        IN  /\ rotated_pip[1] - new_pip[1] = roi.x
            /\ rotated_pip[2] - new_pip[2] = roi.y

====
